---- MODULE Spec2Model ----
(***************************************************************************)
(* ciphermask: the entity merge / conflict-resolution engine of            *)
(* app/services/pii_detector.py and the deterministic stages that consume  *)
(* its output (classifier, risk and safety scoring, compliance decision,   *)
(* redaction, distribution aggregation), the lazy load of the NLP model    *)
(* handle, and the name rules' word scan.                                  *)
(*                                                                         *)
(* Entities are the dicts of the source: records with the fields value,    *)
(* label, detection_method, start, end (and category once classified).     *)
(* Lists are sequences.  A text is a sequence of one-character strings.    *)
(***************************************************************************)
EXTENDS Integers, Sequences, FiniteSets, TLC

VARIABLES
    pc,              \* position of the running call
    regex_entities,  \* detect: output of _detect_regex
    nlp_entities,    \* detect: output of _detect_nlp after the ORG pass
    rule_entities,   \* detect: output of _apply_name_rules
    merged,          \* detect: the list handed to _resolve_overlaps
    canonical,       \* detect: the list _resolve_overlaps returns
    text,            \* redact: the text argument
    entities,        \* redact: the entities argument
    sorted_entities, \* redact: the local list sorted by start, descending
    result,          \* redact: the string under construction / returned
    red_i,           \* redact: index of the loop's next entity
    raw_entities,    \* _run_pipeline: the list detect returned
    classified,      \* _run_pipeline: the list classify returned
    risk_src,        \* where risk_score comes from: "entities" or "arg"
    risk_score,      \* compute_risk_score's result / the risk_score argument
    safety_score,    \* compute_safety_score's result
    compliance,      \* evaluate's result
    eval_i,          \* evaluate: index of the loop's next threshold entry
    eval_exit,       \* evaluate: the return statement taken, "loop" or "fallback"
    cat_dist,        \* compute_distributions: the category table
    label_dist,      \* compute_distributions: the label table
    _nlp,            \* pii_detector._nlp: 0 for None, else the handle's number
    loads,           \* number of spacy.load executions so far
    app_pc,          \* the process: "startup" until lifespan yields, then "serving"
    t_pc,            \* per caller of _get_nlp: its position in the call
    t_local,         \* per caller: the handle its spacy.load returned, not yet stored
    t_calls,         \* per caller: the calls of _get_nlp it has completed
    returned,        \* the handles _get_nlp has returned so far
    pattern,         \* name rules: the trigger family whose match is extracted
    after_intro,     \* name rules: text[intro.end():], as its runs of characters
    search_pos,      \* name rules: search_pos, counted from intro.end()
    words,           \* name rules: the words consumed so far
    name_entities    \* name rules: the entities emitted for the trigger match

detect_vars == <<regex_entities, nlp_entities, rule_entities, merged, canonical>>
redact_vars == <<text, entities, sorted_entities, result, red_i>>
score_vars == <<raw_entities, classified, risk_src, risk_score, safety_score,
                compliance, eval_i, eval_exit, cat_dist, label_dist>>
nlp_vars == <<_nlp, loads, app_pc, t_pc, t_local, t_calls, returned>>
names_vars == <<pattern, after_intro, search_pos, words, name_entities>>
vars == <<pc, detect_vars, redact_vars, score_vars, nlp_vars, names_vars>>

(***************************************************************************)
(* Bounds of the model.                                                    *)
(***************************************************************************)
\* offsets of the candidate spans range over 0..MaxPos
MaxPos == 2
\* the three detectors together propose at most MaxCands candidates
MaxCands == 3
\* redact: texts have at most MaxText characters
MaxText == 4
\* redact: at most MaxEnts entities are replaced
MaxEnts == 2
\* scoring: the pipeline scores lists of at most MaxScored entities
MaxScored == 3
\* scoring: a risk_score argument passed directly ranges over 0..MaxRisk
MaxRisk == 110
\* model handle: the number of concurrent callers of _get_nlp
NumThreads == 2
\* model handle: each caller calls _get_nlp at most MaxCalls times
MaxCalls == 2
\* name rules: the text after a trigger match has at most MaxSegs runs
MaxSegs == 7

(***************************************************************************)
(* Generic helpers.                                                        *)
(***************************************************************************)
Range(s) == {s[i] : i \in 1..Len(s)}

\* all sequences over S of length exactly n / at most n
SeqsOfLen(S, n) == [1..n -> S]
SeqsUpTo(S, n) == UNION {SeqsOfLen(S, k) : k \in 0..n}

\* number of positions of s holding x
Count(s, x) == Cardinality({i \in 1..Len(s) : s[i] = x})

\* Python's tuple comparison on the (mp, lp, start) keys
TupleLess(a, b) ==
    \/ a[1] < b[1]
    \/ a[1] = b[1] /\ a[2] < b[2]
    \/ a[1] = b[1] /\ a[2] = b[2] /\ a[3] < b[3]

(***************************************************************************)
(* pii_detector.py: the tables of _resolve_overlaps.                       *)
(***************************************************************************)
\* the labels of _REGEX_PATTERNS in declaration order
REGEX_PATTERNS == <<"CREDIT_CARD", "AADHAAR", "PHONE", "EMAIL", "PAN", "IFSC">>

\* label_priority.get(label, 99)
label_priority(label) ==
    IF \E i \in 1..Len(REGEX_PATTERNS) : REGEX_PATTERNS[i] = label
    THEN (CHOOSE i \in 1..Len(REGEX_PATTERNS) : REGEX_PATTERNS[i] = label) - 1
    ELSE 99

\* mutant of method_priority: the contextual detector ranked first
method_priority_nlp_first(method) ==
    CASE method = "nlp"   -> 0
      [] method = "rule"  -> 1
      [] method = "regex" -> 2
      [] OTHER            -> 99

\* method_priority.get(method, 99)
method_priority(method) ==
    CASE method = "regex" -> 0
      [] method = "rule"  -> 1
      [] method = "nlp"   -> 2
      [] OTHER            -> 99

\* mutant of sort_key: the detection method left out of the key
sort_key_label_only(e) == <<0, label_priority(e.label)>>

\* sort_key(e) = (mp, lp)
sort_key(e) == <<method_priority(e.detection_method), label_priority(e.label)>>

\* mutant of resolve_key: the start left out of the key
resolve_key_no_start(e) == <<sort_key(e)[1], sort_key(e)[2], 0>>

\* the key of entities.sort: (sort_key(e), e["start"]), flattened
resolve_key(e) == <<sort_key(e)[1], sort_key(e)[2], e.start>>

\* list.sort is stable: x goes behind every element whose key is not greater
InsertByKey(sorted, x) ==
    LET k == Cardinality({i \in 1..Len(sorted) :
                            ~TupleLess(resolve_key(x), resolve_key(sorted[i]))})
    IN SubSeq(sorted, 1, k) \o <<x>> \o SubSeq(sorted, k + 1, Len(sorted))

RECURSIVE SortByKey(_)
SortByKey(s) ==
    IF s = <<>> THEN <<>>
    ELSE InsertByKey(SortByKey(SubSeq(s, 1, Len(s) - 1)), s[Len(s)])

\* mutant of Overlaps: only a start inside an occupied range counts
OverlapsStartInside(s, e, os, oe) == os <= s /\ s < oe

\* the overlap test of the greedy scan: s < oe and e > os
Overlaps(s, e, os, oe) == s < oe /\ e > os

\* the greedy scan: kept grows by every entity that overlaps no kept span
RECURSIVE GreedyKeep(_, _)
GreedyKeep(ents, kept) ==
    IF ents = <<>> THEN kept
    ELSE LET ent == Head(ents)
             hit == \E i \in 1..Len(kept) :
                        Overlaps(ent.start, ent.end, kept[i].start, kept[i].end)
         IN GreedyKeep(Tail(ents), IF hit THEN kept ELSE Append(kept, ent))

\* mutant of Dedup: the key is the label alone
RECURSIVE DedupByLabel(_, _)
DedupByLabel(kept, deduped) ==
    IF kept = <<>> THEN deduped
    ELSE LET ent == Head(kept)
             seen == \E i \in 1..Len(deduped) : deduped[i].label = ent.label
         IN DedupByLabel(Tail(kept), IF seen THEN deduped ELSE Append(deduped, ent))

\* the deduplication on (start, end, label): the first of each key stays
RECURSIVE Dedup(_, _)
Dedup(kept, deduped) ==
    IF kept = <<>> THEN deduped
    ELSE LET ent == Head(kept)
             seen == \E i \in 1..Len(deduped) :
                        /\ deduped[i].start = ent.start
                        /\ deduped[i].end = ent.end
                        /\ deduped[i].label = ent.label
         IN Dedup(Tail(kept), IF seen THEN deduped ELSE Append(deduped, ent))

\* mutant of SortByStart: the final re-sort left out
SortByStartMissing(s) == s

\* deduped.sort(key=start), stable
InsertByStart(sorted, x) ==
    LET k == Cardinality({i \in 1..Len(sorted) : sorted[i].start <= x.start})
    IN SubSeq(sorted, 1, k) \o <<x>> \o SubSeq(sorted, k + 1, Len(sorted))

RECURSIVE SortByStart(_)
SortByStart(s) ==
    IF s = <<>> THEN <<>>
    ELSE InsertByStart(SortByStart(SubSeq(s, 1, Len(s) - 1)), s[Len(s)])

\* _resolve_overlaps(entities): the returned list
_resolve_overlaps(ents) ==
    IF ents = <<>> THEN <<>>
    ELSE SortByStart(Dedup(GreedyKeep(SortByKey(ents), <<>>), <<>>))

(***************************************************************************)
(* The candidates the detectors hand to the merge.  A candidate's value is *)
(* text[start:end]; it is carried as the pair of its offsets.              *)
(***************************************************************************)
Entity(label, method, s, e) ==
    [value |-> <<s, e>>, label |-> label, detection_method |-> method,
     start |-> s, end |-> e]

Spans == {se \in (0..MaxPos) \X (0..MaxPos) : se[1] < se[2]}

RegexCandidates ==
    {Entity(l, "regex", se[1], se[2]) : l \in {"CREDIT_CARD", "EMAIL"}, se \in Spans}
RuleCandidates ==
    {Entity("PERSON", "rule", se[1], se[2]) : se \in Spans}
NlpCandidates ==
    {Entity(l, "nlp", se[1], se[2]) : l \in {"PERSON", "GPE"}, se \in Spans}

\* the overlapping pair of the specification's example
ExampleCard == Entity("CREDIT_CARD", "regex", 10, 29)
ExamplePerson == Entity("PERSON", "nlp", 12, 16)

\* the variables of a call that is not running
IdleDetect ==
    /\ regex_entities = <<>> /\ nlp_entities = <<>> /\ rule_entities = <<>>
    /\ merged = <<>> /\ canonical = <<>>
IdleRedact ==
    /\ text = <<>> /\ entities = <<>> /\ sorted_entities = <<>>
    /\ result = <<>> /\ red_i = 0

IdleScore ==
    /\ raw_entities = <<>> /\ classified = <<>> /\ risk_src = "none"
    /\ risk_score = 0 /\ safety_score = 0 /\ compliance = "none"
    /\ eval_i = 0 /\ eval_exit = "none" /\ cat_dist = <<>> /\ label_dist = <<>>

Threads == 1..NumThreads

IdleNames ==
    /\ pattern = "none" /\ after_intro = <<>> /\ search_pos = 0
    /\ words = <<>> /\ name_entities = <<>>

IdleNlp ==
    /\ _nlp = 0 /\ loads = 0 /\ app_pc = "startup" /\ returned = {}
    /\ t_pc = [t \in Threads |-> "idle"]
    /\ t_local = [t \in Threads |-> 0]
    /\ t_calls = [t \in Threads |-> 0]

InitDetect ==
    /\ pc = "detect"
    /\ IdleRedact
    /\ IdleScore
    /\ IdleNlp
    /\ IdleNames
    /\ \/ \E a \in 0..MaxCands : \E b \in 0..(MaxCands - a) :
            /\ regex_entities \in SeqsOfLen(RegexCandidates, a)
            /\ rule_entities \in SeqsOfLen(RuleCandidates, b)
            /\ nlp_entities \in SeqsUpTo(NlpCandidates, MaxCands - a - b)
       \/ /\ regex_entities = <<ExampleCard>>
          /\ rule_entities = <<>>
          /\ nlp_entities = <<ExamplePerson>>
    /\ merged = <<>>
    /\ canonical = <<>>

\* detect, from the concatenation on: entities.sort sorts the merged list in
\* place, the return value is the resolved list
detect ==
    /\ pc = "detect"
    /\ merged' = SortByKey(regex_entities \o nlp_entities \o rule_entities)
    /\ canonical' = _resolve_overlaps(regex_entities \o nlp_entities \o rule_entities)
    /\ pc' = "detected"
    /\ UNCHANGED <<regex_entities, nlp_entities, rule_entities, redact_vars, score_vars, nlp_vars, names_vars>>

SpecDetect == InitDetect /\ [][detect]_vars

(***************************************************************************)
(* Claims about _resolve_overlaps, checked under SpecDetect.               *)
(***************************************************************************)
AllCandidates == regex_entities \o nlp_entities \o rule_entities

\* C1: when every candidate has start < end, the entities _resolve_overlaps
\* returns are pairwise non-overlapping: for two distinct returned entities
\* [s1,e1) and [s2,e2), not (s1 < e2 and e1 > s2).
C1_NonOverlapping ==
    (pc = "detected" /\ \A c \in Range(AllCandidates) : c.start < c.end)
    => \A i, j \in 1..Len(canonical) :
          i # j => ~(canonical[i].start < canonical[j].end
                     /\ canonical[i].end > canonical[j].start)

\* C1 witness: a merge that kept two entities and dropped an overlapping one
C1_Witness ==
    /\ pc = "detected"
    /\ Len(canonical) >= 2
    /\ Len(canonical) < Len(AllCandidates)

\* C2: the list _resolve_overlaps (and so detect) returns is sorted by start
\* ascending: each entity's start is <= the start of the entity after it.
C2_SortedByStart ==
    pc = "detected"
    => \A i \in 1..(Len(canonical) - 1) :
          canonical[i].start <= canonical[i + 1].start

\* C2 witness: the greedy scan accepted the entities in an order that is not
\* the document order, so the final sort had to move one
C2_Witness ==
    /\ pc = "detected"
    /\ Len(canonical) >= 2
    /\ canonical # Dedup(GreedyKeep(merged, <<>>), <<>>)

\* the priorities as C3 states them
C3_MethodPriority(m) ==
    CASE m = "regex" -> 0 [] m = "rule" -> 1 [] m = "nlp" -> 2 [] OTHER -> 99
C3_LabelPriority(l) ==
    CASE l = "CREDIT_CARD" -> 0 [] l = "AADHAAR" -> 1 [] l = "PHONE" -> 2
      [] l = "EMAIL" -> 3 [] l = "PAN" -> 4 [] l = "IFSC" -> 5 [] OTHER -> 99
C3_PairLeq(o, c) ==
    \/ C3_MethodPriority(o.detection_method) < C3_MethodPriority(c.detection_method)
    \/ /\ C3_MethodPriority(o.detection_method) = C3_MethodPriority(c.detection_method)
       /\ C3_LabelPriority(o.label) <= C3_LabelPriority(c.label)

\* C3: a candidate is missing from the output only if the output holds a span
\* that overlaps it and whose (method priority, label priority) pair is <= its
\* own (pattern 0 < rule 1 < contextual 2; label priority the declaration
\* order of the pattern table, other labels lowest); for pattern CREDIT_CARD
\* [10,29) and contextual PERSON [12,16) only the CREDIT_CARD is returned.
C3_DroppedOnlyByHigherPriority ==
    pc = "detected"
    => /\ \A c \in Range(AllCandidates) :
            Count(canonical, c) < Count(AllCandidates, c)
            => \E o \in Range(canonical) :
                  /\ o.start < c.end /\ o.end > c.start
                  /\ C3_PairLeq(o, c)
       /\ (Range(AllCandidates) = {ExampleCard, ExamplePerson}
           /\ Len(AllCandidates) = 2)
          => canonical = <<ExampleCard>>

\* C3 witness: a rule or contextual candidate lost to an overlapping span of
\* strictly higher priority while another candidate of its method survived
C3_Witness ==
    /\ pc = "detected"
    /\ \E c \in Range(AllCandidates) : \E o, k \in Range(canonical) :
          /\ c \notin Range(canonical)
          /\ o.start < c.end /\ o.end > c.start
          /\ C3_MethodPriority(o.detection_method) < C3_MethodPriority(c.detection_method)
          /\ k.detection_method = c.detection_method

\* C4: the merge does not depend on the order of the three detectors: each of
\* the six orders of concatenating the pattern, rule and contextual lists
\* gives the same returned list.
C4_OrderIndependent ==
    pc = "detected"
    => LET r == regex_entities
           n == nlp_entities
           u == rule_entities
       IN /\ _resolve_overlaps(r \o n \o u) = canonical
          /\ _resolve_overlaps(r \o u \o n) = canonical
          /\ _resolve_overlaps(n \o r \o u) = canonical
          /\ _resolve_overlaps(n \o u \o r) = canonical
          /\ _resolve_overlaps(u \o r \o n) = canonical
          /\ _resolve_overlaps(u \o n \o r) = canonical

\* C4 witness: all three detectors proposed a candidate and the merge had a
\* conflict between candidates of different detectors to resolve
C4_Witness ==
    /\ pc = "detected"
    /\ regex_entities # <<>> /\ nlp_entities # <<>> /\ rule_entities # <<>>
    /\ \E c \in Range(AllCandidates) : \E o \in Range(canonical) :
          /\ c \notin Range(canonical)
          /\ o.detection_method # c.detection_method

(***************************************************************************)
(* redaction_engine.py: redact(text, entities).                            *)
(***************************************************************************)
Min(a, b) == IF a < b THEN a ELSE b

\* the characters of a label, for the f-string "[{label}]"
LabelChars(label) ==
    CASE label = "PERSON"      -> <<"P", "E", "R", "S", "O", "N">>
      [] label = "ORG"         -> <<"O", "R", "G">>
      [] label = "GPE"         -> <<"G", "P", "E">>
      [] label = "PHONE"       -> <<"P", "H", "O", "N", "E">>
      [] label = "EMAIL"       -> <<"E", "M", "A", "I", "L">>
      [] label = "AADHAAR"     -> <<"A", "A", "D", "H", "A", "A", "R">>
      [] label = "PAN"         -> <<"P", "A", "N">>
      [] label = "CREDIT_CARD" -> <<"C", "R", "E", "D", "I", "T", "_", "C", "A", "R", "D">>
      [] label = "IFSC"        -> <<"I", "F", "S", "C">>

\* placeholder = f"[{ent['label']}]"
Placeholder(ent) == <<"[">> \o LabelChars(ent.label) \o <<"]">>

\* Python slices s[:n] and s[n:] for n >= 0 (an index past the end is clamped)
SliceTo(s, n) == SubSeq(s, 1, Min(n, Len(s)))
SliceFrom(s, n) == SubSeq(s, Min(n, Len(s)) + 1, Len(s))

\* mutant of ReplaceSpan: the tail is taken one character late
ReplaceSpanTailLate(res, ent) ==
    SliceTo(res, ent.start) \o Placeholder(ent) \o SliceFrom(res, ent.end + 1)

\* result[: ent["start"]] + placeholder + result[ent["end"] :]
ReplaceSpan(res, ent) ==
    SliceTo(res, ent.start) \o Placeholder(ent) \o SliceFrom(res, ent.end)

\* sorted(..., reverse=True) keeps equal keys in their original order: x goes
\* behind every element whose start is not smaller
InsertByStartDesc(sorted, x) ==
    LET k == Cardinality({i \in 1..Len(sorted) : sorted[i].start >= x.start})
    IN SubSeq(sorted, 1, k) \o <<x>> \o SubSeq(sorted, k + 1, Len(sorted))

\* mutant of SortedByStartDesc: reverse=True left out
SortedByStartAsc(s) == SortByStart(s)

\* sorted(entities, key=lambda e: e["start"], reverse=True)
RECURSIVE SortedByStartDesc(_)
SortedByStartDesc(s) ==
    IF s = <<>> THEN <<>>
    ELSE InsertByStartDesc(SortedByStartDesc(SubSeq(s, 1, Len(s) - 1)), s[Len(s)])

\* the inputs: texts over a two-letter alphabet, and lists, in any order, of
\* mutually non-overlapping entities that lie inside the text
Texts == SeqsUpTo({"a", "b"}, MaxText)

RedactCandidates(t) ==
    {Entity(l, "regex", s, e) : l \in {"EMAIL", "PAN"},
                               s \in 0..Len(t), e \in 0..Len(t)}

Disjoint(ents) ==
    \A i, j \in 1..Len(ents) :
        i # j => ~(ents[i].start < ents[j].end /\ ents[i].end > ents[j].start)

InRange(ents, t) ==
    \A i \in 1..Len(ents) :
        0 <= ents[i].start /\ ents[i].start < ents[i].end /\ ents[i].end <= Len(t)

\* "My name is Alice Kumar and my email is alice@x.com" and its two entities
ExampleText ==
    <<"M", "y", " ", "n", "a", "m", "e", " ", "i", "s", " ",
      "A", "l", "i", "c", "e", " ", "K", "u", "m", "a", "r", " ",
      "a", "n", "d", " ", "m", "y", " ", "e", "m", "a", "i", "l", " ",
      "i", "s", " ", "a", "l", "i", "c", "e", "@", "x", ".", "c", "o", "m">>
ExampleAlice == Entity("PERSON", "rule", 11, 22)
ExampleEmail == Entity("EMAIL", "regex", 39, 50)

InitRedact ==
    /\ pc = "redact"
    /\ IdleDetect
    /\ IdleScore
    /\ IdleNlp
    /\ IdleNames
    /\ \/ /\ text \in Texts
          /\ entities \in SeqsUpTo(RedactCandidates(text), MaxEnts)
          /\ InRange(entities, text)
          /\ Disjoint(entities)
       \/ /\ text = ExampleText
          /\ entities \in {<<ExampleAlice, ExampleEmail>>, <<ExampleEmail, ExampleAlice>>}
    /\ sorted_entities = <<>>
    /\ result = <<>>
    /\ red_i = 0

\* sorted_entities = sorted(...); result = text
redact_sort ==
    /\ pc = "redact"
    /\ sorted_entities' = SortedByStartDesc(entities)
    /\ result' = text
    /\ red_i' = 1
    /\ pc' = "redact_loop"
    /\ UNCHANGED <<text, entities, detect_vars, score_vars, nlp_vars, names_vars>>

\* one iteration of: for ent in sorted_entities
redact_step ==
    /\ pc = "redact_loop"
    /\ red_i <= Len(sorted_entities)
    /\ result' = ReplaceSpan(result, sorted_entities[red_i])
    /\ red_i' = red_i + 1
    /\ UNCHANGED <<pc, text, entities, sorted_entities, detect_vars, score_vars, nlp_vars, names_vars>>

\* return result
redact_return ==
    /\ pc = "redact_loop"
    /\ red_i > Len(sorted_entities)
    /\ pc' = "redacted"
    /\ UNCHANGED <<redact_vars, detect_vars, score_vars, nlp_vars, names_vars>>

NextRedact == redact_sort \/ redact_step \/ redact_return

SpecRedact == InitRedact /\ [][NextRedact]_vars

(***************************************************************************)
(* Claims about redact, checked under SpecRedact.                          *)
(***************************************************************************)
\* the string C5 describes: the non-entity runs of t copied in order from
\* offset p on, "[" + label + "]" in place of each entity's range
RECURSIVE C5_Rebuild(_, _, _)
C5_Rebuild(t, ents, p) ==
    IF p >= Len(t) THEN <<>>
    ELSE IF \E e \in ents : e.start = p
         THEN LET e == CHOOSE x \in ents : x.start = p
              IN <<"[">> \o LabelChars(e.label) \o <<"]">> \o C5_Rebuild(t, ents, e.end)
         ELSE <<t[p + 1]>> \o C5_Rebuild(t, ents, p + 1)

\* "My name is [PERSON] and my email is [EMAIL]"
C5_ExampleRedacted ==
    <<"M", "y", " ", "n", "a", "m", "e", " ", "i", "s", " ",
      "[", "P", "E", "R", "S", "O", "N", "]", " ",
      "a", "n", "d", " ", "m", "y", " ", "e", "m", "a", "i", "l", " ",
      "i", "s", " ", "[", "E", "M", "A", "I", "L", "]">>

\* C5: for mutually non-overlapping entities inside the text, listed in any
\* order, redact returns the text's non-entity runs in order with "[label]"
\* in place of each entity's range, and each replacement is applied while the
\* entity's offsets still denote the characters they denote in the text.
C5_RedactIsRebuild ==
    (InRange(entities, text) /\ Disjoint(entities))
    => /\ pc = "redacted" => result = C5_Rebuild(text, Range(entities), 0)
       /\ pc = "redact_loop"
          => \A k \in red_i..Len(sorted_entities) :
                SubSeq(result, 1, sorted_entities[k].end)
                    = SubSeq(text, 1, sorted_entities[k].end)
       /\ (pc = "redacted" /\ text = ExampleText) => result = C5_ExampleRedacted

\* C5 witness: two entities listed in ascending order, with text between
\* them and after them, have been replaced
C5_Witness ==
    /\ pc = "redacted"
    /\ Len(entities) = 2
    /\ entities[1].end < entities[2].start
    /\ entities[2].end < Len(text)
    /\ text # ExampleText

\* the change of length caused by the entities of ents that end at or before
\* offset p
RECURSIVE C6_Shift(_, _)
C6_Shift(ents, p) ==
    IF ents = <<>> THEN 0
    ELSE LET e == Head(ents)
         IN (IF e.end <= p THEN Len(LabelChars(e.label)) + 2 - (e.end - e.start) ELSE 0)
            + C6_Shift(Tail(ents), p)

C6_Outside(ents, p) == \A i \in 1..Len(ents) : ~(ents[i].start <= p /\ p < ents[i].end)

\* C6: redact leaves the non-entity regions alone: with no entity the text is
\* returned unchanged; for non-overlapping entities every character outside
\* all entity ranges is in the output, unchanged and in its original relative
\* order (at its offset shifted by the replacements before it); the text and
\* the entity list passed in are not modified.
C6_NonEntityRegionsKept ==
    /\ [](pc = "redacted"
          => /\ entities = <<>> => result = text
             /\ (InRange(entities, text) /\ Disjoint(entities))
                => /\ Len(result) = Len(text) + C6_Shift(entities, Len(text))
                   /\ \A p \in 0..(Len(text) - 1) :
                         C6_Outside(entities, p)
                         => result[p + 1 + C6_Shift(entities, p)] = text[p + 1])
    /\ [][text' = text /\ entities' = entities]_vars

\* C6 witness: an entity in the middle of the text was replaced, with
\* non-entity characters on both sides of it
C6_Witness ==
    /\ pc = "redacted"
    /\ Len(entities) = 1
    /\ 0 < entities[1].start
    /\ entities[1].end < Len(text)
    /\ result # text

(***************************************************************************)
(* config.py: the static tables.                                           *)
(***************************************************************************)
\* WEIGHTS.get(label, default)
WEIGHTS_get(label, default) ==
    CASE label = "PHONE"       -> 5
      [] label = "EMAIL"       -> 3
      [] label = "PERSON"      -> 2
      [] label = "ORG"         -> 1
      [] label = "GPE"         -> 1
      [] label = "AADHAAR"     -> 10
      [] label = "PAN"         -> 8
      [] label = "CREDIT_CARD" -> 10
      [] label = "IFSC"        -> 6
      [] OTHER                 -> default

\* LABEL_CATEGORY_MAP.get(label, default)
LABEL_CATEGORY_MAP_get(label, default) ==
    CASE label \in {"PERSON", "PHONE", "EMAIL", "ORG", "GPE"} -> "Personal"
      [] label \in {"AADHAAR", "PAN"}                          -> "Government"
      [] label \in {"CREDIT_CARD", "IFSC"}                     -> "Financial"
      [] OTHER                                                 -> default

\* COMPLIANCE_THRESHOLDS, in declared order
COMPLIANCE_THRESHOLDS ==
    << [bound |-> 80, status |-> "CRITICAL - NOT SAFE"],
       [bound |-> 50, status |-> "HIGH RISK - REVIEW REQUIRED"],
       [bound |-> 25, status |-> "MODERATE RISK - REVIEW"],
       [bound |-> 0,  status |-> "SAFE FOR PUBLIC RELEASE"] >>

(***************************************************************************)
(* classifier.py, risk_engine.py, distribution_engine.py.                  *)
(***************************************************************************)
\* enriched = {**ent}; enriched["category"] = LABEL_CATEGORY_MAP.get(label, "Personal")
Enrich(ent) ==
    [f \in DOMAIN ent \cup {"category"} |->
        IF f = "category" THEN LABEL_CATEGORY_MAP_get(ent.label, "Personal")
        ELSE ent[f]]

\* classify(entities): a new list of enriched copies
classify(ents) == [i \in 1..Len(ents) |-> Enrich(ents[i])]

\* the keys of a Counter in insertion order: each item at its first occurrence
RECURSIVE FirstOccurrences(_)
FirstOccurrences(items) ==
    IF items = <<>> THEN <<>>
    ELSE LET front == SubSeq(items, 1, Len(items) - 1)
             x == items[Len(items)]
         IN IF x \in Range(front) THEN FirstOccurrences(front)
            ELSE Append(FirstOccurrences(front), x)

\* mutant of Tally: the count is set to 1 instead of incremented
RECURSIVE TallySetsOne(_, _)
TallySetsOne(items, acc) ==
    IF items = <<>> THEN acc
    ELSE LET x == Head(items)
         IN TallySetsOne(Tail(items),
                         [k \in DOMAIN acc \cup {x} |-> IF k = x THEN 1 ELSE acc[k]])

\* a Counter filled by "counter[x] += 1" for each item in turn; a missing key
\* counts as 0
RECURSIVE Tally(_, _)
Tally(items, acc) ==
    IF items = <<>> THEN acc
    ELSE LET x == Head(items)
             old(k) == IF k \in DOMAIN acc THEN acc[k] ELSE 0
         IN Tally(Tail(items),
                  [k \in DOMAIN acc \cup {x} |-> old(k) + (IF k = x THEN 1 ELSE 0)])

LabelsOf(ents) == [i \in 1..Len(ents) |-> ents[i].label]
CategoriesOf(ents) == [i \in 1..Len(ents) |-> ents[i].category]

\* sum(WEIGHTS.get(label, 0) * count for label, count in counts.items())
RECURSIVE SumItems(_, _)
SumItems(keys, counts) ==
    IF keys = <<>> THEN 0
    ELSE WEIGHTS_get(Head(keys), 0) * counts[Head(keys)] + SumItems(Tail(keys), counts)

\* mutant of compute_risk_score: each label present is weighed once
compute_risk_score_once(ents) ==
    SumItems(FirstOccurrences(LabelsOf(ents)),
             [k \in Range(LabelsOf(ents)) |-> 1])

\* compute_risk_score(entities)
compute_risk_score(ents) ==
    LET counts == Tally(LabelsOf(ents), <<>>)
    IN SumItems(FirstOccurrences(LabelsOf(ents)), counts)

Max(a, b) == IF a > b THEN a ELSE b

\* mutant of compute_safety_score: the clamp at 0 left out
compute_safety_score_unclamped(risk) == 100 - risk

\* compute_safety_score(risk_score) = max(0, 100 - risk_score)
compute_safety_score(risk) == Max(0, 100 - risk)

\* compute_distributions(entities) = (category_dist, label_dist)
compute_distributions(ents) ==
    <<Tally(CategoriesOf(ents), <<>>), Tally(LabelsOf(ents), <<>>)>>

(***************************************************************************)
(* main.py: _run_pipeline from classify on, and the scoring functions      *)
(* called with a risk_score argument.                                      *)
(***************************************************************************)
\* the labels of the entities to score; DATE is in none of the tables
ScoreLabels ==
    {"PERSON", "ORG", "GPE", "PHONE", "EMAIL", "AADHAAR", "PAN", "CREDIT_CARD",
     "IFSC", "DATE"}

MethodOf(label) ==
    IF \E i \in 1..Len(REGEX_PATTERNS) : REGEX_PATTERNS[i] = label
    THEN "regex" ELSE "nlp"

\* a canonical list with the given labels: the i-th entity at [2i-2, 2i-1)
CanonicalList(labels) ==
    [i \in 1..Len(labels) |->
        Entity(labels[i], MethodOf(labels[i]), 2 * i - 2, 2 * i - 1)]

InitScore ==
    /\ IdleDetect
    /\ IdleRedact
    /\ IdleNlp
    /\ IdleNames
    /\ classified = <<>> /\ safety_score = 0 /\ compliance = "none"
    /\ eval_i = 0 /\ eval_exit = "none" /\ cat_dist = <<>> /\ label_dist = <<>>
    /\ \/ /\ pc = "classify"
          /\ risk_src = "entities"
          /\ \E labels \in SeqsUpTo(ScoreLabels, MaxScored) :
                raw_entities = CanonicalList(labels)
          /\ risk_score = 0
       \/ /\ pc = "safety"
          /\ risk_src = "arg"
          /\ raw_entities = <<>>
          /\ risk_score \in 0..MaxRisk

\* mutant of run_classify: the category is written into the caller's dicts
\* (enriched = ent instead of enriched = {**ent})
run_classify_in_place ==
    /\ pc = "classify"
    /\ classified' = classify(raw_entities)
    /\ raw_entities' = classify(raw_entities)
    /\ pc' = "risk"
    /\ UNCHANGED <<risk_src, risk_score, safety_score, compliance,
                   eval_i, eval_exit, cat_dist, label_dist, detect_vars, redact_vars, nlp_vars, names_vars>>

\* classified = classifier.classify(raw_entities)
run_classify ==
    /\ pc = "classify"
    /\ classified' = classify(raw_entities)
    /\ pc' = "risk"
    /\ UNCHANGED <<raw_entities, risk_src, risk_score, safety_score, compliance,
                   eval_i, eval_exit, cat_dist, label_dist, detect_vars, redact_vars, nlp_vars, names_vars>>

\* risk = risk_engine.compute_risk_score(classified)
run_risk ==
    /\ pc = "risk"
    /\ risk_score' = compute_risk_score(classified)
    /\ pc' = "safety"
    /\ UNCHANGED <<raw_entities, classified, risk_src, safety_score, compliance,
                   eval_i, eval_exit, cat_dist, label_dist, detect_vars, redact_vars, nlp_vars, names_vars>>

\* safety = risk_engine.compute_safety_score(risk)
run_safety ==
    /\ pc = "safety"
    /\ safety_score' = compute_safety_score(risk_score)
    /\ eval_i' = 1
    /\ pc' = "evaluate"
    /\ UNCHANGED <<raw_entities, classified, risk_src, risk_score, compliance,
                   eval_exit, cat_dist, label_dist, detect_vars, redact_vars, nlp_vars, names_vars>>

\* where the caller goes on after evaluate returned
AfterEvaluate == IF risk_src = "entities" THEN "distributions" ELSE "scored"

\* evaluate, the loop: "if risk_score > threshold: return status"
evaluate_match ==
    /\ pc = "evaluate"
    /\ eval_i <= Len(COMPLIANCE_THRESHOLDS)
    /\ risk_score > COMPLIANCE_THRESHOLDS[eval_i].bound
    /\ compliance' = COMPLIANCE_THRESHOLDS[eval_i].status
    /\ eval_exit' = "loop"
    /\ pc' = AfterEvaluate
    /\ UNCHANGED <<raw_entities, classified, risk_src, risk_score, safety_score,
                   eval_i, cat_dist, label_dist, detect_vars, redact_vars, nlp_vars, names_vars>>

\* evaluate, the loop: the entry does not match, go to the next one
evaluate_next ==
    /\ pc = "evaluate"
    /\ eval_i <= Len(COMPLIANCE_THRESHOLDS)
    /\ ~(risk_score > COMPLIANCE_THRESHOLDS[eval_i].bound)
    /\ eval_i' = eval_i + 1
    /\ UNCHANGED <<pc, raw_entities, classified, risk_src, risk_score, safety_score,
                   compliance, eval_exit, cat_dist, label_dist, detect_vars, redact_vars, nlp_vars, names_vars>>

\* evaluate, after the loop: return COMPLIANCE_THRESHOLDS[-1][1]
evaluate_fallback ==
    /\ pc = "evaluate"
    /\ eval_i > Len(COMPLIANCE_THRESHOLDS)
    /\ compliance' = COMPLIANCE_THRESHOLDS[Len(COMPLIANCE_THRESHOLDS)].status
    /\ eval_exit' = "fallback"
    /\ pc' = AfterEvaluate
    /\ UNCHANGED <<raw_entities, classified, risk_src, risk_score, safety_score,
                   eval_i, cat_dist, label_dist, detect_vars, redact_vars, nlp_vars, names_vars>>

\* cat_dist, label_dist = distribution_engine.compute_distributions(classified)
run_distributions ==
    /\ pc = "distributions"
    /\ cat_dist' = compute_distributions(classified)[1]
    /\ label_dist' = compute_distributions(classified)[2]
    /\ pc' = "scored"
    /\ UNCHANGED <<raw_entities, classified, risk_src, risk_score, safety_score,
                   compliance, eval_i, eval_exit, detect_vars, redact_vars, nlp_vars, names_vars>>

NextScore ==
    \/ run_classify \/ run_risk \/ run_safety
    \/ evaluate_match \/ evaluate_next \/ evaluate_fallback
    \/ run_distributions

SpecScore == InitScore /\ [][NextScore]_vars

(***************************************************************************)
(* The model handle: lifespan of main.py and _get_nlp of pii_detector.py,  *)
(* called by the requests the process serves.  Every spacy.load builds a   *)
(* new handle; handles are numbered in the order of their loads.           *)
(***************************************************************************)
InitNlp ==
    /\ pc = "nlp"
    /\ IdleDetect
    /\ IdleRedact
    /\ IdleScore
    /\ IdleNlp
    /\ IdleNames

\* lifespan: spacy.load(SPACY_MODEL), the handle is not kept; then yield
lifespan ==
    /\ app_pc = "startup"
    /\ loads' = loads + 1
    /\ app_pc' = "serving"
    /\ UNCHANGED <<pc, _nlp, t_pc, t_local, t_calls, returned,
                   detect_vars, redact_vars, score_vars,
                   names_vars>>

\* a request reaches _detect_nlp, which calls _get_nlp
get_nlp_call(t) ==
    /\ app_pc = "serving"
    /\ t_pc[t] = "idle"
    /\ t_calls[t] < MaxCalls
    /\ t_pc' = [t_pc EXCEPT ![t] = "test"]
    /\ UNCHANGED <<pc, _nlp, loads, app_pc, t_local, t_calls, returned,
                   detect_vars, redact_vars, score_vars,
                   names_vars>>

\* if _nlp is None
get_nlp_test(t) ==
    /\ t_pc[t] = "test"
    /\ t_pc' = [t_pc EXCEPT ![t] = IF _nlp = 0 THEN "load" ELSE "return"]
    /\ UNCHANGED <<pc, _nlp, loads, app_pc, t_local, t_calls, returned,
                   detect_vars, redact_vars, score_vars,
                   names_vars>>

\* the right-hand side of _nlp = spacy.load(SPACY_MODEL)
get_nlp_load(t) ==
    /\ t_pc[t] = "load"
    /\ loads' = loads + 1
    /\ t_local' = [t_local EXCEPT ![t] = loads + 1]
    /\ t_pc' = [t_pc EXCEPT ![t] = "store"]
    /\ UNCHANGED <<pc, _nlp, app_pc, t_calls, returned,
                   detect_vars, redact_vars, score_vars,
                   names_vars>>

\* the assignment to the global _nlp
get_nlp_store(t) ==
    /\ t_pc[t] = "store"
    /\ _nlp' = t_local[t]
    /\ t_pc' = [t_pc EXCEPT ![t] = "return"]
    /\ UNCHANGED <<pc, loads, app_pc, t_local, t_calls, returned,
                   detect_vars, redact_vars, score_vars,
                   names_vars>>

\* return _nlp
get_nlp_return(t) ==
    /\ t_pc[t] = "return"
    /\ returned' = returned \cup {_nlp}
    /\ t_calls' = [t_calls EXCEPT ![t] = t_calls[t] + 1]
    /\ t_pc' = [t_pc EXCEPT ![t] = "idle"]
    /\ UNCHANGED <<pc, _nlp, loads, app_pc, t_local,
                   detect_vars, redact_vars, score_vars,
                   names_vars>>

NextNlp ==
    \/ lifespan
    \/ \E t \in Threads :
          \/ get_nlp_call(t)
          \/ get_nlp_test(t)
          \/ get_nlp_load(t)
          \/ get_nlp_store(t)
          \/ get_nlp_return(t)

SpecNlp == InitNlp /\ [][NextNlp]_vars

(***************************************************************************)
(* The name rules: _extract_names_from_pattern for one trigger match.      *)
(* The text after the match, text[intro.end():], is given by its maximal   *)
(* runs of characters: letters [A-Za-z], spaces " ", or anything else.     *)
(* A run of letters carries its length and what the word it spells is:     *)
(* "stop" a stop-word, "struct" a structural keyword, "joint" a word that  *)
(* begins like the second word of a two-word structural keyword and ends   *)
(* like its first ("namexfull" for "full name"), else "plain".             *)
(* Offsets count from intro.end().                                         *)
(***************************************************************************)
\* _NAME_WORD_RE = [A-Za-z]{2,20}: the bounds of the repetition
NameWordMin == 2
NameWordMax == 20

Patterns == {"_NAME_INTRO", "_GREETING_INTRO", "_FIELD_LABEL"}

\* the max_words argument _apply_name_rules passes with each pattern
max_words(p) ==
    CASE p = "_NAME_INTRO" -> 4
      [] p = "_GREETING_INTRO" -> 2
      [] p = "_FIELD_LABEL" -> 4

Run(kind, len, cls) == [kind |-> kind, len |-> len, cls |-> cls, start |-> 0]

\* runs of letters: "Al", "is", "phone", "namexfull", and plain runs of 20,
\* 21 and 22 letters no part of which spells a listed word
LetterRuns ==
    {Run("letters", 2, "plain"),
     Run("letters", 2, "stop"), Run("letters", 5, "struct"),
     Run("letters", 9, "joint"),
     Run("letters", NameWordMax, "plain"),
     Run("letters", NameWordMax + 1, "plain"),
     Run("letters", NameWordMax + 2, "plain")}

\* runs between the runs of letters: a space, or a run that holds a
\* character other than a space
GapRuns == {Run("spaces", 1, "none"), Run("other", 1, "none")}

\* the length of t in characters
TextLen(t) == IF t = <<>> THEN 0 ELSE t[Len(t)].start + t[Len(t)].len

\* x can follow s: runs of letters and gaps alternate, and the trigger's
\* trailing \s+ or \s* leaves no space at the head of the text
Follows(s, x) ==
    IF s = <<>> THEN x.kind # "spaces"
    ELSE (s[Len(s)].kind = "letters") # (x.kind = "letters")

\* the texts of at most n runs, every run placed at its offset
RECURSIVE AfterIntroTexts(_)
AfterIntroTexts(n) ==
    IF n = 0 THEN {<<>>}
    ELSE LET shorter == AfterIntroTexts(n - 1)
             longest == {s \in shorter : Len(s) = n - 1}
         IN shorter \cup
            {Append(sx[1], [sx[2] EXCEPT !.start = TextLen(sx[1])]) :
                sx \in {p \in longest \X (LetterRuns \cup GapRuns) :
                            Follows(p[1], p[2])}}

RunEnd(t, k) == t[k].start + t[k].len

\* the runs in which [A-Za-z]{2,20} matches at or after pos: runs of letters
\* with at least NameWordMin letters at or after pos
MatchRuns(t, pos) ==
    {k \in 1..Len(t) :
        /\ t[k].kind = "letters"
        /\ RunEnd(t, k) - Max(pos, t[k].start) >= NameWordMin}

\* the run of the next match finditer yields from pos: the leftmost
m_run(t, pos) == CHOOSE k \in MatchRuns(t, pos) : \A j \in MatchRuns(t, pos) : k <= j

\* m.start(): the first offset of that run at or after pos
m_start(t, pos) == Max(pos, t[m_run(t, pos)].start)

\* m.end(): the repetition is greedy and takes up to NameWordMax letters
m_end(t, pos) ==
    m_start(t, pos) + Min(NameWordMax, RunEnd(t, m_run(t, pos)) - m_start(t, pos))

\* what m.group() spells: the run's word when the match is the whole run
m_group(t, pos) ==
    IF /\ m_start(t, pos) = t[m_run(t, pos)].start
       /\ m_end(t, pos) = RunEnd(t, m_run(t, pos))
    THEN t[m_run(t, pos)].cls
    ELSE "plain"

\* all(c == " " for c in text[a:b])
AllSpaces(t, a, b) ==
    \A k \in 1..Len(t) :
        (a < b /\ t[k].start < b /\ RunEnd(t, k) > a) => t[k].kind = "spaces"

\* _is_structural(candidate) for the consumed words: the candidate holds a
\* two-word keyword when two "joint" words meet across one space (a word
\* that is itself a keyword is never consumed)
_is_structural(ws) ==
    \E i \in 1..(Len(ws) - 1) :
        /\ ws[i].cls = "joint" /\ ws[i + 1].cls = "joint"
        /\ ws[i + 1].start - ws[i].end = 1

InitNames ==
    /\ pc = "scan"
    /\ IdleDetect
    /\ IdleRedact
    /\ IdleScore
    /\ IdleNlp
    /\ pattern \in Patterns
    /\ after_intro \in AfterIntroTexts(MaxSegs)
    /\ search_pos = 0
    /\ words = <<>>
    /\ name_entities = <<>>

\* the scan ends "emit"-ready: the loop is left by exhaustion or by break
LeaveLoop ==
    /\ pc' = "emit"
    /\ UNCHANGED <<pattern, after_intro, search_pos, words, name_entities,
                   detect_vars, redact_vars, score_vars, nlp_vars>>

\* the gap test of the loop body passes for the next match
GapPasses ==
    /\ MatchRuns(after_intro, search_pos) # {}
    /\ AllSpaces(after_intro, search_pos, m_start(after_intro, search_pos))

\* finditer yields no further match
scan_exhausted ==
    /\ pc = "scan"
    /\ MatchRuns(after_intro, search_pos) = {}
    /\ LeaveLoop

\* if m.start() != search_pos and the gap is not all spaces: break
scan_gap ==
    /\ pc = "scan"
    /\ MatchRuns(after_intro, search_pos) # {}
    /\ ~AllSpaces(after_intro, search_pos, m_start(after_intro, search_pos))
    /\ LeaveLoop

\* if m.group().lower() in _STOP_WORDS: break
scan_stop_word ==
    /\ pc = "scan"
    /\ GapPasses
    /\ m_group(after_intro, search_pos) = "stop"
    /\ LeaveLoop

\* if _is_structural(m.group()): break
scan_structural ==
    /\ pc = "scan"
    /\ GapPasses
    /\ m_group(after_intro, search_pos) = "struct"
    /\ LeaveLoop

\* words.append(...); search_pos = m.end(); break at max_words
scan_consume ==
    /\ pc = "scan"
    /\ GapPasses
    /\ m_group(after_intro, search_pos) \notin {"stop", "struct"}
    /\ words' = Append(words, [start |-> m_start(after_intro, search_pos),
                               end |-> m_end(after_intro, search_pos),
                               cls |-> m_group(after_intro, search_pos)])
    /\ search_pos' = m_end(after_intro, search_pos)
    /\ pc' = IF Len(words) + 1 >= max_words(pattern) THEN "emit" ELSE "scan"
    /\ UNCHANGED <<pattern, after_intro, name_entities,
                   detect_vars, redact_vars, score_vars, nlp_vars>>

\* if words is empty nothing is emitted
emit_nothing ==
    /\ pc = "emit"
    /\ words = <<>>
    /\ pc' = "emitted"
    /\ UNCHANGED <<names_vars, detect_vars, redact_vars, score_vars, nlp_vars>>

\* the candidate is structural: nothing is emitted
emit_discard ==
    /\ pc = "emit"
    /\ words # <<>>
    /\ _is_structural(words)
    /\ pc' = "emitted"
    /\ UNCHANGED <<names_vars, detect_vars, redact_vars, score_vars, nlp_vars>>

\* entities.append of the span from words[0] to words[-1]
emit_entity ==
    /\ pc = "emit"
    /\ words # <<>>
    /\ ~_is_structural(words)
    /\ name_entities' = Append(name_entities,
                               Entity("PERSON", "rule", words[1].start,
                                      words[Len(words)].end))
    /\ pc' = "emitted"
    /\ UNCHANGED <<pattern, after_intro, search_pos, words,
                   detect_vars, redact_vars, score_vars, nlp_vars>>

NextNames ==
    \/ scan_exhausted
    \/ scan_gap
    \/ scan_stop_word
    \/ scan_structural
    \/ scan_consume
    \/ emit_nothing
    \/ emit_discard
    \/ emit_entity

SpecNames == InitNames /\ [][NextNames]_vars

(***************************************************************************)
(* All calls together.                                                     *)
(***************************************************************************)
Init == InitDetect \/ InitRedact \/ InitScore \/ InitNlp \/ InitNames

Next == detect \/ NextRedact \/ NextScore \/ NextNlp \/ NextNames

Spec == Init /\ [][Next]_vars

(***************************************************************************)
(* Claims about the scoring stages, checked under SpecScore.               *)
(***************************************************************************)
\* the list's labels are exactly those of wanted, with the same multiplicities
HasLabels(ents, wanted) ==
    /\ Len(ents) = Len(wanted)
    /\ \A l \in Range(wanted) : Count(LabelsOf(ents), l) = Count(wanted, l)

\* the sum over the entities of the weight of each entity's label
RECURSIVE C7_SumOverEntities(_)
C7_SumOverEntities(ents) ==
    IF ents = <<>> THEN 0
    ELSE WEIGHTS_get(Head(ents).label, 0) + C7_SumOverEntities(Tail(ents))

\* the sum over the distinct labels of a set of weight times count
RECURSIVE C7_SumOverLabels(_, _)
C7_SumOverLabels(labels, ents) ==
    IF labels = {} THEN 0
    ELSE LET l == CHOOSE x \in labels : TRUE
         IN WEIGHTS_get(l, 0) * Count(LabelsOf(ents), l)
            + C7_SumOverLabels(labels \ {l}, ents)

\* C7: compute_risk_score returns the sum over the entities of the weight of
\* each entity's label (weight times count per distinct label), with weight 0
\* for a label absent from the weight table; one EMAIL and one PHONE give 8.
C7_RiskIsWeightedSum ==
    (risk_src = "entities" /\ pc \notin {"classify", "risk"})
    => /\ risk_score = C7_SumOverEntities(classified)
       /\ risk_score = C7_SumOverLabels(Range(LabelsOf(classified)), classified)
       /\ HasLabels(classified, <<"EMAIL", "PHONE">>) => risk_score = 8

\* C7 witness: a risk was computed for a list with a repeated label and a
\* label the weight table does not hold
C7_Witness ==
    /\ pc = "safety"
    /\ risk_src = "entities"
    /\ HasLabels(classified, <<"PAN", "DATE", "PAN">>)
    /\ risk_score = 16

\* C8: compute_safety_score(risk) is max(0, 100 - risk): 100 for the risk of
\* an empty entity list, 0 for every risk above 100, and within [0, 100] for
\* every risk >= 0.
C8_SafetyClamped ==
    pc \in {"evaluate", "distributions", "scored"}
    => /\ safety_score = (IF 100 - risk_score > 0 THEN 100 - risk_score ELSE 0)
       /\ (risk_src = "entities" /\ raw_entities = <<>>) => safety_score = 100
       /\ risk_score > 100 => safety_score = 0
       /\ risk_score >= 0 => (0 <= safety_score /\ safety_score <= 100)

\* C8 witness: the safety score of a risk above 100 was computed
C8_Witness ==
    /\ pc = "evaluate"
    /\ risk_score > 100
    /\ safety_score = 0

\* C9: for every risk >= 0 the scan of the threshold table (80, 50, 25, 0)
\* itself finds an entry whose bound is strictly less than risk (the final
\* entry, bound 0, always matches), and evaluate returns the status of the
\* first such entry; risk 8 yields the bound-0 status.
C9_ScanAlwaysMatches ==
    (eval_exit # "none" /\ risk_score >= 0)
    => /\ eval_exit = "loop"
       /\ \E i \in 1..Len(COMPLIANCE_THRESHOLDS) :
             /\ COMPLIANCE_THRESHOLDS[i].bound < risk_score
             /\ \A j \in 1..(i - 1) : ~(COMPLIANCE_THRESHOLDS[j].bound < risk_score)
             /\ compliance = COMPLIANCE_THRESHOLDS[i].status
       /\ risk_score = 8 => compliance = "SAFE FOR PUBLIC RELEASE"

\* the sum of a table's counts
RECURSIVE C10_Total(_)
C10_Total(dist) ==
    IF DOMAIN dist = {} THEN 0
    ELSE LET k == CHOOSE x \in DOMAIN dist : TRUE
         IN dist[k] + C10_Total([j \in DOMAIN dist \ {k} |-> dist[j]])

\* C10: in the tables compute_distributions returns, each key's count is the
\* number of entities with that category (label), a key with no entity is
\* absent, each table's counts sum to the number of entities, and every
\* permutation of the list gives the same tables; labels {EMAIL, PAN, PAN}
\* give the category table {Personal: 1, Government: 2}.
C10_Distributions ==
    (pc = "scored" /\ risk_src = "entities")
    => /\ DOMAIN cat_dist = Range(CategoriesOf(classified))
       /\ DOMAIN label_dist = Range(LabelsOf(classified))
       /\ \A k \in DOMAIN cat_dist :
             cat_dist[k] = Count(CategoriesOf(classified), k) /\ cat_dist[k] > 0
       /\ \A k \in DOMAIN label_dist :
             label_dist[k] = Count(LabelsOf(classified), k) /\ label_dist[k] > 0
       /\ C10_Total(cat_dist) = Len(classified)
       /\ C10_Total(label_dist) = Len(classified)
       /\ \A pi \in Permutations(1..Len(classified)) :
             compute_distributions([i \in 1..Len(classified) |-> classified[pi[i]]])
                 = <<cat_dist, label_dist>>
       /\ HasLabels(classified, <<"EMAIL", "PAN", "PAN">>)
          => cat_dist = ("Personal" :> 1) @@ ("Government" :> 2)

\* C10 witness: the tables of a list with the labels EMAIL, PAN, PAN, the
\* EMAIL between the two PANs, were computed
C10_Witness ==
    /\ pc = "scored"
    /\ LabelsOf(classified) = <<"PAN", "EMAIL", "PAN">>
    /\ label_dist = ("PAN" :> 2) @@ ("EMAIL" :> 1)

\* C11: classify returns a new list of the same length and order in which
\* each entity keeps all its original fields and gains category = Category
\* Map[label], Personal for a label the map does not hold; the list passed in
\* and its records are not modified (they get no category key).
C11_ClassifyEnrichesCopies ==
    /\ []((risk_src = "entities" /\ pc # "classify")
          => /\ Len(classified) = Len(raw_entities)
             /\ \A i \in 1..Len(raw_entities) :
                   /\ DOMAIN classified[i] = DOMAIN raw_entities[i] \cup {"category"}
                   /\ \A f \in DOMAIN raw_entities[i] :
                         classified[i][f] = raw_entities[i][f]
                   /\ classified[i].category
                         = LABEL_CATEGORY_MAP_get(raw_entities[i].label, "Personal")
                   /\ raw_entities[i].label = "DATE"
                      => classified[i].category = "Personal"
                   /\ "category" \notin DOMAIN raw_entities[i])
    /\ [][raw_entities' = raw_entities]_vars

\* C11 witness: a list holding a label outside the map and a label of another
\* category than Personal was classified
C11_Witness ==
    /\ pc = "risk"
    /\ LabelsOf(raw_entities) = <<"DATE", "PAN", "IFSC">>
    /\ CategoriesOf(classified) = <<"Personal", "Government", "Financial">>

(***************************************************************************)
(* Claims about the model handle, checked under SpecNlp.                   *)
(***************************************************************************)
\* C12: the model handle is initialized exactly once per process and reused:
\* over any sequence and any interleaving of calls of _get_nlp, together with
\* the startup preload, the model load is executed at most once and every
\* call returns the same handle.
C12_SingleFlight ==
    /\ loads <= 1
    /\ Cardinality(returned) <= 1

(***************************************************************************)
(* Claims about the visiting order of _resolve_overlaps, under SpecDetect. *)
(***************************************************************************)
\* the key a candidate is ordered by: (method priority, label priority), and
\* the start as well when withStart
C13_Key(e, withStart) ==
    <<sort_key(e)[1], sort_key(e)[2], IF withStart THEN e.start ELSE 0>>

\* the stable order of s by C13_Key: the first candidate with the least key,
\* then the stable order of the others
RECURSIVE C13_StableOrder(_, _)
C13_StableOrder(s, withStart) ==
    IF s = <<>> THEN <<>>
    ELSE LET i == CHOOSE x \in 1..Len(s) :
                    \A j \in 1..Len(s) :
                        /\ j < x => TupleLess(C13_Key(s[x], withStart), C13_Key(s[j], withStart))
                        /\ j > x => ~TupleLess(C13_Key(s[j], withStart), C13_Key(s[x], withStart))
         IN <<s[i]>> \o C13_StableOrder(SubSeq(s, 1, i - 1) \o SubSeq(s, i + 1, Len(s)),
                                        withStart)

\* candidates i and j have equal (method, label) priority and overlap, and no
\* third candidate overlaps candidate i
C13_EqualPriorityConflict(i, j) ==
    LET c == AllCandidates
    IN /\ i # j
       /\ sort_key(c[i]) = sort_key(c[j])
       /\ c[i].start < c[j].end /\ c[i].end > c[j].start
       /\ \A k \in 1..Len(c) :
             (k # i /\ k # j) => ~(c[i].start < c[k].end /\ c[i].end > c[k].start)

\* of the conflicting candidates i and j, i is the one kept
C13_FirstIsKept(i, j) ==
    /\ AllCandidates[i] \in Range(canonical)
    /\ AllCandidates[j] # AllCandidates[i] => AllCandidates[j] \notin Range(canonical)

\* C13 as stated: the greedy scan visits the candidates in the order of a
\* stable sort by (method priority, label priority) only, so of two
\* overlapping candidates of equal priority the one that appears first in
\* the input is the one kept.
C13_StableByPriorityOnly ==
    pc = "detected"
    => /\ merged = C13_StableOrder(AllCandidates, FALSE)
       /\ \A i, j \in 1..Len(AllCandidates) :
             (C13_EqualPriorityConflict(i, j) /\ i < j) => C13_FirstIsKept(i, j)

\* C13 as amended: the greedy scan visits the candidates in the order of a
\* stable sort by (method priority, label priority, start), so of two
\* overlapping candidates of equal priority the one with the smaller start
\* is the one kept, and on equal starts the one that appears first in the
\* input.
C13_StableByPriorityAndStart ==
    pc = "detected"
    => /\ merged = C13_StableOrder(AllCandidates, TRUE)
       /\ \A i, j \in 1..Len(AllCandidates) :
             (/\ C13_EqualPriorityConflict(i, j)
              /\ \/ AllCandidates[i].start < AllCandidates[j].start
                 \/ AllCandidates[i].start = AllCandidates[j].start /\ i < j)
             => C13_FirstIsKept(i, j)

\* C13 witness: of two overlapping rule candidates the one that comes second
\* in the input starts earlier, and it is the one kept
C13_Witness ==
    /\ pc = "detected"
    /\ Len(rule_entities) = 2
    /\ rule_entities[2].start < rule_entities[1].start
    /\ rule_entities[2].end > rule_entities[1].start
    /\ canonical = <<rule_entities[2]>>

\* C15: _resolve_overlaps only selects.  Every returned entity is one of the
\* input candidates with value, label, detection method, start and end
\* unchanged; no candidate is returned more often than it occurs in the
\* input; and when every candidate has start < end the deduplication on
\* (start, end, label) removes nothing from the spans the greedy scan kept.
C15_OnlySelects ==
    pc = "detected"
    => /\ \A i \in 1..Len(canonical) : canonical[i] \in Range(AllCandidates)
       /\ \A x \in Range(canonical) : Count(canonical, x) <= Count(AllCandidates, x)
       /\ (\A i \in 1..Len(AllCandidates) :
                AllCandidates[i].start < AllCandidates[i].end)
          => Dedup(GreedyKeep(merged, <<>>), <<>>) = GreedyKeep(merged, <<>>)

\* C15 witness: two spans of one label are returned, and a candidate with the
\* (start, end, label) of a returned one, found by another method, is not
C15_Witness ==
    /\ pc = "detected"
    /\ Len(canonical) = 2
    /\ canonical[1].label = canonical[2].label
    /\ \E i \in 1..Len(AllCandidates) :
          /\ AllCandidates[i].start = canonical[1].start
          /\ AllCandidates[i].end = canonical[1].end
          /\ AllCandidates[i].label = canonical[1].label
          /\ AllCandidates[i].detection_method # canonical[1].detection_method
          /\ AllCandidates[i] \notin Range(canonical)

(***************************************************************************)
(* Claims about the name rules, under SpecNames.                           *)
(***************************************************************************)
\* the word w is a whole alphabetic token of the text, 2 to 20 letters long
C14_WholeToken(w) ==
    \E k \in 1..Len(after_intro) :
        /\ after_intro[k].kind = "letters"
        /\ after_intro[k].start = w.start
        /\ RunEnd(after_intro, k) = w.end
        /\ after_intro[k].len >= NameWordMin
        /\ after_intro[k].len <= NameWordMax

\* between the words i and i + 1 there are spaces and nothing else
C14_SpacesBetween(i) ==
    \A k \in 1..Len(after_intro) :
        (/\ words[i].end < words[i + 1].start
         /\ after_intro[k].start < words[i + 1].start
         /\ RunEnd(after_intro, k) > words[i].end)
        => after_intro[k].kind = "spaces"

\* C14: for each trigger match _extract_names_from_pattern emits at most one
\* PERSON span with detection method rule, running from the first to the
\* last consumed word; the consumed words are whole alphabetic tokens of 2
\* to 20 letters separated only by spaces, number at least 1 and at most the
\* family's maximum, and none is a stop-word or a structural keyword; no
\* span is emitted when the resulting value matches a structural keyword.
C14_OneSpanOfWholeWords ==
    pc = "emitted"
    => /\ Len(name_entities) <= 1
       /\ _is_structural(words) => name_entities = <<>>
       /\ name_entities # <<>>
          => /\ name_entities[1] = Entity("PERSON", "rule", words[1].start,
                                          words[Len(words)].end)
             /\ Len(words) >= 1
             /\ Len(words) <= max_words(pattern)
             /\ \A i \in 1..Len(words) :
                   /\ C14_WholeToken(words[i])
                   /\ words[i].cls \notin {"stop", "struct"}
             /\ \A i \in 1..(Len(words) - 1) : C14_SpacesBetween(i)

====
